---- MODULE Spec2Model ----
(***************************************************************************)
(* Model of the mock todo store (services/mockApi) of Todo-React-Task.     *)
(*                                                                         *)
(* Strings are sequences of one-character strings, so that trim() and     *)
(* concatenation are computed.  Timestamps are milliseconds counted from  *)
(* 2025-09-01T00:00:00Z; toISOString() of such an instant is modelled by   *)
(* the instant itself (the ISO form is an order-preserving injection).    *)
(* Objects live in `heap` and arrays hold references (heap indexes), so   *)
(* that sharing between the store and what it returns is visible.         *)
(* An optional field is <<>> when absent and <<v>> when present.          *)
(***************************************************************************)
EXTENDS Integers, Sequences, FiniteSets, TLC

VARIABLES
    todos,      \* the module-level array `todos`: a sequence of references
    heap,       \* the Todo objects, by reference
    clock,      \* the wall clock read by Date.now() / new Date(), in ms
    pending,    \* calls suspended at `await delay(..)`, in invocation order
    invoked,    \* number of store operations invoked so far
    last,       \* the call that settled most recently, with its envelope
    appTodos,   \* App: state `todos`, a sequence of references
    isLoading,  \* App: state `isLoading`
    appError,   \* App: state `error` (<<>> for null)
    isCreating, \* App: state `isCreating`
    updatingTodoId,  \* App: state `updatingTodoId` (<<>> for null)
    deletingTodoId,  \* App: state `deletingTodoId` (<<>> for null)
    formData,   \* AddTodoForm: state `formData`
    errors,     \* AddTodoForm: state `errors`
    editing,    \* TodoItem: editData and editErrors of the items with isEditing
    loaded,     \* history: the first loadTodos has completed
    trip        \* history: a create, and what the collection was before it

storeVars == <<todos, heap, clock, pending, invoked, last>>

appVars == <<appTodos, isLoading, appError, isCreating, updatingTodoId, deletingTodoId,
             formData, errors, editing, loaded>>

vars == <<storeVars, appVars, trip>>

----------------------------------------------------------------------------
(* Bounds of the exploration *)

MaxOps == 2        \* store operations invoked in one behaviour
MaxTicks == 1      \* single-millisecond ticks taken while callers are idle
MaxTripOps == 3    \* store operations invoked in a behaviour of SpecTrip
MaxUiOps == 3      \* store operations invoked by App, the initial load included

----------------------------------------------------------------------------
(* Values *)

None == <<>>
Some(v) == <<v>>
Undefined == "undefined"

\* the instant of day d (1 = 2025-09-01), hour h, UTC
Instant(d, h) == (d - 1) * 86400000 + h * 3600000

\* the clock when the page is loaded: after every seeded timestamp
Clock0 == Instant(11, 0)

Range(s) == {s[i] : i \in 1..Len(s)}

\* String.prototype.trim
RECURSIVE TrimStart(_)
TrimStart(s) ==
    IF s # <<>> /\ Head(s) = " " THEN TrimStart(Tail(s)) ELSE s

RECURSIVE TrimEnd(_)
TrimEnd(s) ==
    IF s # <<>> /\ s[Len(s)] = " " THEN TrimEnd(SubSeq(s, 1, Len(s) - 1)) ELSE s

trim(s) == TrimEnd(TrimStart(s))

\* Number.prototype.toString(36) of a non-negative integer, as digits 0..35
RECURSIVE toString36(_)
toString36(n) ==
    IF n < 36 THEN <<n>> ELSE Append(toString36(n \div 36), n % 36)

\* the seeded collection
SeedTodos ==
    << [id |-> <<1>>,
        title |-> <<"G","o"," ","t","o"," ","t","h","e"," ","g","y","m">>,
        description |-> <<"B","u","i","l","d"," ","u","p"," ","m","y"," ","b","o","d","y"," ","f","o","r"," ","s","u","m","m","e","r"," ","t","i","m","e">>,
        completed |-> FALSE,
        createdAt |-> Instant(1, 11),
        updatedAt |-> Instant(1, 10)],
       [id |-> <<2>>,
        title |-> <<"W","a","i","t"," ","f","o"," ","F","C","2","6"," ","t","o"," ","b","e"," ","l","a","u","n","c","h","e","d">>,
        description |-> <<"C","a","n","t"," ","w","a","i","t"," ","t","o"," ","s","e","e"," ","t","h","e"," ","n","e","w"," ","f","e","a","t","u","r","e","s">>,
        completed |-> TRUE,
        createdAt |-> Instant(7, 11),
        updatedAt |-> Instant(8, 12)],
       [id |-> <<3>>,
        title |-> <<"U","p","d","a","t","e"," ","m","y"," ","p","o","r","t","f","o","l","i","o">>,
        description |-> <<"A","d","d"," ","m","y"," ","r","e","c","e","n","t"," ","p","r","o","j","e","c","t","s">>,
        completed |-> FALSE,
        createdAt |-> Instant(3, 13),
        updatedAt |-> Instant(5, 13)] >>

\* the records of the store's collection, in collection order
Collection == [i \in 1..Len(todos) |-> heap[todos[i]]]

----------------------------------------------------------------------------
(* Inputs *)

\* values Math.random() returns, in hundredths: just below the failure
\* threshold and at it
RandomDraws == {4, 5}

\* Math.random().toString(36).substr(2): the digits after "0."
\* (empty when the draw is exactly 0)
RandomFractions == {<<>>, <<7, 19>>}

TitleInputs == {<<" "," ","B","u","y"," ","m","i","l","k"," ">>}
DescriptionInputs == {<<"2"," ","l","i","t","e","r","s"," ">>}

\* an id no record ever has
MissingId == <<35>>

\* ids a caller names: a seeded one (the middle record), the ids the store
\* generated, and one that never existed
IdInputs == {<<2>>, MissingId} \cup {heap[a].id : a \in 4..Len(heap)}

\* partial payloads of updateTodo: the checkbox toggle and the edit form
UpdateInputs ==
    {[title |-> None, description |-> None, completed |-> Some(FALSE)]}
    \cup {[title |-> Some(t), description |-> Some(d), completed |-> None] :
             t \in TitleInputs, d \in DescriptionInputs}

----------------------------------------------------------------------------
(* Calls and envelopes *)

Call(op, id, title, description, completed, due) ==
    [op |-> op, id |-> id, title |-> title, description |-> description,
     completed |-> completed, due |-> due]

NoCall == Call("none", None, None, None, None, 0)

\* `new Error(message)`
NewError(message) == [isError |-> TRUE, message |-> message]

\* what an operation leaves behind: the store and the settled promise.
\* data is a sequence of references: the array for "array", one reference
\* for "object", empty for "null" and "undefined"
Outcome(newTodos, newHeap, settled, success, dataKind, data, error, message) ==
    [todos |-> newTodos, heap |-> newHeap, settled |-> settled,
     success |-> success, dataKind |-> dataKind, data |-> data,
     error |-> error, message |-> message]

\* `return {success: true, data, message}` inside the try block
Returned(newTodos, newHeap, dataKind, data, message) ==
    Outcome(newTodos, newHeap, "fulfilled", TRUE, dataKind, data, Undefined, message)

\* the catch clause: the thrown value becomes a failure envelope
CaughtRethrow(e, message) ==
    IF e.message = "Todo not found"
    THEN Outcome(todos, heap, "rejected", FALSE, "undefined", <<>>, Undefined, Undefined)
    ELSE Outcome(todos, heap, "fulfilled", FALSE, "undefined", <<>>,
                 IF e.isError THEN e.message ELSE "Unknown error occurred", message)

Caught(e, message) ==
    Outcome(todos, heap, "fulfilled", FALSE, "undefined", <<>>,
            IF e.isError THEN e.message ELSE "Unknown error occurred", message)

----------------------------------------------------------------------------
(* Helpers of the store *)

FetchDelay == 800
CreateDelay == 600
UpdateDelay == 500
DeleteDelay == 400

\* Math.random() < 0.05, in hundredths
FailThreshold == 5

\* delay(ms): the instant from which the timer may fire
delay(ms) == clock + ms

shouldFailAlways(operation, rnd) == rnd < FailThreshold

shouldFail(operation, rnd) ==
    IF operation = "fetch" THEN FALSE ELSE rnd < FailThreshold

\* Date.now().toString(36) + Math.random().toString(36).substr(2)
generateId(now, fraction) == toString36(now) \o fraction

\* todos.findIndex(todo => todo.id === id): 0-based, -1 when there is none
findIndex(id) ==
    LET hits == {i \in 1..Len(todos) : heap[todos[i]].id = id}
    IN IF hits = {} THEN -1
       ELSE (CHOOSE i \in hits : \A j \in hits : i <= j) - 1

\* arr.splice(start, deleteCount): start is 0-based, negative counts from
\* the end
spliceOffByOne(arr, start, deleteCount) ==
    LET from == IF start + 1 > Len(arr) THEN Len(arr) ELSE start + 1
        upto == IF from + deleteCount > Len(arr) THEN Len(arr) ELSE from + deleteCount
    IN SubSeq(arr, 1, from) \o SubSeq(arr, upto + 1, Len(arr))

splice(arr, start, deleteCount) ==
    LET from == IF start < 0
                THEN (IF Len(arr) + start < 0 THEN 0 ELSE Len(arr) + start)
                ELSE (IF start > Len(arr) THEN Len(arr) ELSE start)
        upto == IF from + deleteCount > Len(arr) THEN Len(arr) ELSE from + deleteCount
    IN SubSeq(arr, 1, from) \o SubSeq(arr, upto + 1, Len(arr))

\* {...old, ...todoData, updatedAt: now}
SpreadKeepUpdatedAt(old, todoData, now) ==
    [id |-> todoData.id[1],
     title |-> IF todoData.title = None THEN old.title ELSE todoData.title[1],
     description |-> IF todoData.description = None THEN old.description
                     ELSE todoData.description[1],
     completed |-> IF todoData.completed = None THEN old.completed
                   ELSE todoData.completed[1],
     createdAt |-> old.createdAt,
     updatedAt |-> old.updatedAt]

SpreadToggle(old, todoData, now) ==
    [id |-> todoData.id[1],
     title |-> IF todoData.title = None THEN old.title ELSE todoData.title[1],
     description |-> IF todoData.description = None THEN old.description
                     ELSE todoData.description[1],
     completed |-> IF todoData.completed = None THEN old.completed
                   ELSE ~old.completed,
     createdAt |-> old.createdAt,
     updatedAt |-> now]


SpreadResetCompleted(old, todoData, now) ==
    [id |-> todoData.id[1],
     title |-> IF todoData.title = None THEN old.title ELSE todoData.title[1],
     description |-> IF todoData.description = None THEN old.description
                     ELSE todoData.description[1],
     completed |-> IF todoData.completed = None THEN FALSE
                   ELSE todoData.completed[1],
     createdAt |-> old.createdAt,
     updatedAt |-> now]

Spread(old, todoData, now) ==
    [id |-> todoData.id[1],
     title |-> IF todoData.title = None THEN old.title ELSE todoData.title[1],
     description |-> IF todoData.description = None THEN old.description
                     ELSE todoData.description[1],
     completed |-> IF todoData.completed = None THEN old.completed
                   ELSE todoData.completed[1],
     createdAt |-> old.createdAt,
     updatedAt |-> now]

----------------------------------------------------------------------------
(* The four operations, from the point where the delay has elapsed.        *)
(* rnd is the value of Math.random() in shouldFail.                        *)

fetchTodos(rnd) ==
    IF shouldFail("fetch", rnd)
    THEN Caught(NewError("Failed to fetch todos. Please try again."), Undefined)
    ELSE Returned(todos, heap, "array", todos, "Todos fetched successfully")

\* todos.unshift in place of todos.push
createTodoPrepend(todoData, rnd, fraction, idNow, createdNow, updatedNow) ==
    IF shouldFail(Undefined, rnd)
    THEN Caught(NewError("Failed to create todo. Please try again."), Undefined)
    ELSE LET newTodo == [id |-> generateId(idNow, fraction),
                         title |-> trim(todoData.title[1]),
                         description |-> trim(todoData.description[1]),
                         completed |-> FALSE,
                         createdAt |-> createdNow,
                         updatedAt |-> updatedNow]
             ref == Len(heap) + 1
         IN Returned(<<ref>> \o todos, Append(heap, newTodo), "object", <<ref>>,
                     "Todo created successfully")


createTodo(todoData, rnd, fraction, idNow, createdNow, updatedNow) ==
    IF shouldFail(Undefined, rnd)
    THEN Caught(NewError("Failed to create todo. Please try again."), Undefined)
    ELSE LET newTodo == [id |-> generateId(idNow, fraction),
                         title |-> trim(todoData.title[1]),
                         description |-> trim(todoData.description[1]),
                         completed |-> FALSE,
                         createdAt |-> createdNow,
                         updatedAt |-> updatedNow]
             ref == Len(heap) + 1
         IN Returned(Append(todos, ref), Append(heap, newTodo), "object", <<ref>>,
                     "Todo created successfully")

\* the merge starts from the object first stored at that index, not from
\* the one the array holds now
updateTodoStale(todoData, rnd, now) ==
    IF shouldFail(Undefined, rnd)
    THEN Caught(NewError("Failed to update todo. Please try again."), Undefined)
    ELSE LET todoIndex == findIndex(todoData.id[1])
             ref == Len(heap) + 1
         IN IF todoIndex = -1
            THEN Caught(NewError("Todo not found"), Undefined)
            ELSE Returned([todos EXCEPT ![todoIndex + 1] = ref],
                          Append(heap, Spread(heap[todoIndex + 1], todoData, now)),
                          "object", <<ref>>, "Todo updated successfully")


updateTodoUnchecked(todoData, rnd, now) ==
    IF shouldFail(Undefined, rnd)
    THEN Caught(NewError("Failed to update todo. Please try again."), Undefined)
    ELSE LET todoIndex == findIndex(todoData.id[1])
             ref == Len(heap) + 1
         IN IF todoIndex = -1
            THEN Returned(todos, Append(heap, [id |-> todoData.id[1], title |-> <<>>,
                                                description |-> <<>>, completed |-> FALSE,
                                                createdAt |-> now, updatedAt |-> now]),
                          "object", <<ref>>, "Todo updated successfully")
            ELSE Returned([todos EXCEPT ![todoIndex + 1] = ref],
                          Append(heap, Spread(heap[todos[todoIndex + 1]], todoData, now)),
                          "object", <<ref>>, "Todo updated successfully")

updateTodo(todoData, rnd, now) ==
    IF shouldFail(Undefined, rnd)
    THEN Caught(NewError("Failed to update todo. Please try again."), Undefined)
    ELSE LET todoIndex == findIndex(todoData.id[1])
             ref == Len(heap) + 1
         IN IF todoIndex = -1
            THEN Caught(NewError("Todo not found"), Undefined)
            ELSE Returned([todos EXCEPT ![todoIndex + 1] = ref],
                          Append(heap, Spread(heap[todos[todoIndex + 1]], todoData, now)),
                          "object", <<ref>>, "Todo updated successfully")

\* the splice moved in front of the failure draw
deleteTodoEager(id, rnd) ==
    LET todoIndex == findIndex(id)
    IN IF todoIndex = -1
       THEN Caught(NewError("Todo not found"), "Failed to delete todo")
       ELSE IF shouldFail(Undefined, rnd)
       THEN Outcome(splice(todos, todoIndex, 1), heap, "fulfilled", FALSE, "undefined",
                    <<>>, "Failed to delete todo. Please try again.",
                    "Failed to delete todo")
       ELSE Returned(splice(todos, todoIndex, 1), heap, "null", <<>>,
                     "Todo deleted successfully")

deleteTodo(id, rnd) ==
    IF shouldFail(Undefined, rnd)
    THEN Caught(NewError("Failed to delete todo. Please try again."),
                "Failed to delete todo")
    ELSE LET todoIndex == findIndex(id)
         IN IF todoIndex = -1
            THEN Caught(NewError("Todo not found"), "Failed to delete todo")
            ELSE Returned(splice(todos, todoIndex, 1), heap, "null", <<>>,
                          "Todo deleted successfully")

----------------------------------------------------------------------------
(* Actions *)

\* the module as loaded: the seeded array, nothing settled yet
InitStore ==
    /\ heap = SeedTodos
    /\ todos = <<1, 2, 3>>
    /\ clock = Clock0
    /\ last = [call |-> NoCall, settled |-> "none", success |-> FALSE,
               dataKind |-> "undefined", data |-> <<>>, error |-> Undefined,
               message |-> Undefined, draw |-> 0]

NoTrip == [phase |-> "none", id |-> <<>>, before |-> <<>>]

\* the useState initial values of App, AddTodoForm and TodoItem
InitComponents ==
    /\ appTodos = <<>>
    /\ isLoading = TRUE
    /\ appError = None
    /\ isCreating = FALSE
    /\ updatingTodoId = None
    /\ deletingTodoId = None
    /\ formData = [title |-> <<>>, description |-> <<>>]
    /\ errors = [title |-> None, description |-> None]
    /\ editing = {}
    /\ loaded = FALSE
    /\ trip = NoTrip

\* the store on its own: no component is mounted, callers invoke it directly
Init ==
    /\ InitStore
    /\ pending = <<>>
    /\ invoked = 0
    /\ InitComponents

\* an operation runs up to its `await delay(..)` and is suspended there
Suspend(call) ==
    /\ pending' = Append(pending, call)
    /\ invoked' = invoked + 1
    /\ UNCHANGED <<todos, heap, clock, last>>

\* the part of an operation before `await delay(..)`
Invoke(call) ==
    /\ invoked < MaxOps
    /\ Suspend(call)
    /\ UNCHANGED <<appVars, trip>>

InvokeFetch ==
    Invoke(Call("fetchTodos", None, None, None, None, delay(FetchDelay)))

InvokeCreate ==
    \E t \in TitleInputs, d \in DescriptionInputs :
        Invoke(Call("createTodo", None, Some(t), Some(d), None, delay(CreateDelay)))

InvokeUpdate ==
    \E id \in IdInputs, u \in UpdateInputs :
        Invoke(Call("updateTodo", Some(id), u.title, u.description, u.completed,
                    delay(UpdateDelay)))

InvokeDelete ==
    \E id \in IdInputs :
        Invoke(Call("deleteTodo", Some(id), None, None, None, delay(DeleteDelay)))

\* the timer of pending[k] fires and the operation runs to its return;
\* `last` keeps the call, its envelope and the value Math.random() had
Return(k, out, now, rnd) ==
    /\ todos' = out.todos
    /\ heap' = out.heap
    /\ clock' = now
    /\ pending' = SubSeq(pending, 1, k - 1) \o SubSeq(pending, k + 1, Len(pending))
    /\ last' = [call |-> pending[k], settled |-> out.settled, success |-> out.success,
                dataKind |-> out.dataKind, data |-> out.data, error |-> out.error,
                message |-> out.message, draw |-> rnd]
    /\ UNCHANGED invoked

\* an operation whose caller does nothing with the envelope
Settle(k, out, now, rnd) ==
    /\ Return(k, out, now, rnd)
    /\ UNCHANGED <<appVars, trip>>

\* setTimeout(() => {}, ms): the timer fires and the promise stays pending
DueNever(k, op) ==
    /\ pending[k].op = op
    /\ clock >= pending[k].due
    /\ FALSE


Due(k, op) == pending[k].op = op /\ clock >= pending[k].due

ResumeFetch ==
    \E k \in 1..Len(pending), rnd \in RandomDraws :
        /\ Due(k, "fetchTodos")
        /\ Settle(k, fetchTodos(rnd), clock, rnd)

\* the clock may tick between two reads of it
ResumeCreate ==
    \E k \in 1..Len(pending), rnd \in RandomDraws, fraction \in RandomFractions,
       d1 \in 0..1, d2 \in 0..1 :
        /\ Due(k, "createTodo")
        /\ LET out == createTodo(pending[k], rnd, fraction, clock, clock + d1,
                                 clock + d1 + d2)
           IN Settle(k, out, IF out.success THEN clock + d1 + d2 ELSE clock, rnd)

ResumeUpdate ==
    \E k \in 1..Len(pending), rnd \in RandomDraws :
        /\ Due(k, "updateTodo")
        /\ Settle(k, updateTodo(pending[k], rnd, clock), clock, rnd)

ResumeDelete ==
    \E k \in 1..Len(pending), rnd \in RandomDraws :
        /\ Due(k, "deleteTodo")
        /\ Settle(k, deleteTodo(pending[k].id[1], rnd), clock, rnd)

\* a millisecond passes
Tick ==
    /\ clock < Clock0 + MaxTicks
    /\ clock' = clock + 1
    /\ UNCHANGED <<todos, heap, pending, invoked, last, appVars, trip>>

\* time passes until the next timer is due
TimerWait ==
    /\ \E k \in 1..Len(pending) : pending[k].due > clock
    /\ clock' = LET later == {pending[k].due : k \in 1..Len(pending)} \ (0..clock)
                IN CHOOSE t \in later : \A u \in later : t <= u
    /\ UNCHANGED <<todos, heap, pending, invoked, last, appVars, trip>>

\* a caller writes to a field of a record it was handed
CallerMutateRecord ==
    /\ last.success
    /\ \E ref \in Range(last.data) :
        /\ heap[ref].title # <<"x">>
        /\ heap' = [heap EXCEPT ![ref].title = <<"x">>]
    /\ UNCHANGED <<todos, clock, pending, invoked, last, appVars, trip>>

\* a caller removes the first element of the array it was handed
CallerMutateList ==
    /\ last.success
    /\ last.dataKind = "array"
    /\ last.data # <<>>
    /\ last' = [last EXCEPT !.data = Tail(@)]
    /\ UNCHANGED <<todos, heap, clock, pending, invoked, appVars, trip>>

Next ==
    \/ InvokeFetch
    \/ InvokeCreate
    \/ InvokeUpdate
    \/ InvokeDelete
    \/ ResumeFetch
    \/ ResumeCreate
    \/ ResumeUpdate
    \/ ResumeDelete
    \/ Tick
    \/ TimerWait

Spec == Init /\ [][Next]_vars

NextCaller ==
    \/ Next
    \/ CallerMutateRecord
    \/ CallerMutateList

SpecCaller == Init /\ [][NextCaller]_vars

----------------------------------------------------------------------------
(* Round trips: callers that create records and then update and delete     *)
(* the records they created.  `trip` follows the most recent create: the   *)
(* collection as it was before it, the id it returned, and whether only    *)
(* updates of that id, and then its delete, have succeeded since.          *)

TripTitles == TitleInputs \cup {<<"T", "e", "a">>}

\* ids returned by createTodo so far
CreatedIds == {heap[a].id : a \in 4..Len(heap)} \ {SeedTodos[i].id : i \in 1..3}

TripInvoke(call) ==
    /\ invoked < MaxTripOps
    /\ Suspend(call)
    /\ UNCHANGED <<appVars, trip>>

TripInvokeCreate ==
    \E t \in TripTitles, d \in DescriptionInputs :
        TripInvoke(Call("createTodo", None, Some(t), Some(d), None, delay(CreateDelay)))

TripInvokeUpdate ==
    \E id \in CreatedIds, u \in UpdateInputs :
        TripInvoke(Call("updateTodo", Some(id), u.title, u.description, u.completed,
                        delay(UpdateDelay)))

TripInvokeDelete ==
    \E id \in CreatedIds :
        TripInvoke(Call("deleteTodo", Some(id), None, None, None, delay(DeleteDelay)))

\* what the settled call makes of the trip under way
TripAfter(call, out) ==
    IF ~out.success THEN trip
    ELSE IF call.op = "createTodo"
         THEN [phase |-> "open", id |-> out.heap[out.data[1]].id, before |-> Collection]
    ELSE IF trip.phase = "open" /\ call.id = Some(trip.id)
         THEN IF call.op = "deleteTodo" THEN [trip EXCEPT !.phase = "done"] ELSE trip
    ELSE NoTrip

TripSettle(k, out, now, rnd) ==
    /\ Return(k, out, now, rnd)
    /\ trip' = TripAfter(pending[k], out)
    /\ UNCHANGED appVars

TripResumeCreate ==
    \E k \in 1..Len(pending), rnd \in RandomDraws, fraction \in RandomFractions,
       d1 \in 0..1, d2 \in 0..1 :
        /\ Due(k, "createTodo")
        /\ LET out == createTodo(pending[k], rnd, fraction, clock, clock + d1,
                                 clock + d1 + d2)
           IN TripSettle(k, out, IF out.success THEN clock + d1 + d2 ELSE clock, rnd)

TripResumeUpdate ==
    \E k \in 1..Len(pending), rnd \in RandomDraws :
        /\ Due(k, "updateTodo")
        /\ TripSettle(k, updateTodo(pending[k], rnd, clock), clock, rnd)

TripResumeDelete ==
    \E k \in 1..Len(pending), rnd \in RandomDraws :
        /\ Due(k, "deleteTodo")
        /\ TripSettle(k, deleteTodo(pending[k].id[1], rnd), clock, rnd)

NextTrip ==
    \/ TripInvokeCreate
    \/ TripInvokeUpdate
    \/ TripInvokeDelete
    \/ TripResumeCreate
    \/ TripResumeUpdate
    \/ TripResumeDelete
    \/ Tick
    \/ TimerWait

SpecTrip == Init /\ [][NextTrip]_vars


----------------------------------------------------------------------------
(* The components: App, AddTodoForm and TodoItem.  A handler runs to its   *)
(* `await`; the rest of it runs in the step in which the store operation   *)
(* it awaits returns.  setState takes effect in the step that calls it.    *)

NoErrors == [title |-> None, description |-> None]

\* AddTodoForm.validateForm: the errors it sets
validateFormUntrimmed(data) ==
    [title |-> IF data.title = <<>> THEN Some("Title is required")
               ELSE IF Len(data.title) < 3
                    THEN Some("Title must be at least 3 characters long")
                    ELSE None,
     description |-> IF data.description = <<>> THEN Some("Description is required")
                     ELSE IF Len(data.description) < 5
                          THEN Some("Description must be at least 5 characters long")
                          ELSE None]

validateForm(data) ==
    [title |-> IF trim(data.title) = <<>> THEN Some("Title is required")
               ELSE IF Len(trim(data.title)) < 3
                    THEN Some("Title must be at least 3 characters long")
                    ELSE None,
     description |-> IF trim(data.description) = <<>> THEN Some("Description is required")
                     ELSE IF Len(trim(data.description)) < 5
                          THEN Some("Description must be at least 5 characters long")
                          ELSE None]

\* TodoItem.validateEditForm: the errors it sets
validateEditForm(data) ==
    [title |-> IF trim(data.title) = <<>> THEN Some("Title is required")
               ELSE IF Len(trim(data.title)) < 3
                    THEN Some("Title must be at least 3 characters long")
                    ELSE None,
     description |-> IF trim(data.description) = <<>> THEN Some("Description is required")
                     ELSE IF Len(trim(data.description)) < 5
                          THEN Some("Description must be at least 5 characters long")
                          ELSE None]

\* what the user types into a title or a description field
TypedTitles == TitleInputs \cup {<<" ", "a", " ">>}

TypedDescriptions == DescriptionInputs

\* what the user types into the fields of an item in edit mode
EditedTitles == {<<" ", "a", " ">>}

EditedDescriptions == DescriptionInputs

\* Math.random() in generateId, for the records created through the form
FormFractions == {<<7, 19>>}

\* the items the user acts on, and the ones the user edits
ClickedIds == {<<1>>, <<2>>} \cup CreatedIds

EditedIds == {<<2>>}

\* the todo prop of the TodoItem rendered with key id
ItemOf(id) == heap[CHOOSE r \in Range(appTodos) : heap[r].id = id]

Shown(id) == ~isLoading /\ \E r \in Range(appTodos) : heap[r].id = id

IsEditing(id) == \E e \in editing : e.id = id

\* the checkbox, Edit and Delete of an item can be clicked
ItemEnabled(id) ==
    /\ Shown(id)
    /\ ~IsEditing(id)
    /\ ~(updatingTodoId = id \/ deletingTodoId = id)

\* the fields, Save and Cancel of an item in edit mode can be used
EditEnabled(e) == Shown(e.id) /\ updatingTodoId # e.id

\* response.error || fallback
OrElse(err, fallback) == IF err = Undefined THEN fallback ELSE err

\* setTodos(prev => [response.data!, ...prev])
afterCreate(prev, ref) == <<ref>> \o prev

\* setTodos(prev => prev.map(todo => todo.id === id ? response.data! : todo))
afterUpdate(prev, id, ref, objects) ==
    [i \in 1..Len(prev) |-> IF objects[prev[i]].id = id THEN ref ELSE prev[i]]

\* a handler that leaves the list as it was
afterDeleteKept(prev, id, objects) == prev

\* setTodos(prev => prev.filter(todo => todo.id !== id))
afterDelete(prev, id, objects) ==
    SelectSeq(prev, LAMBDA r : objects[r].id # id)

\* useEffect(() => { loadTodos(); }, []) has run: the first fetch is in flight
InitApp ==
    /\ InitStore
    /\ pending = <<Call("fetchTodos", None, None, None, None, delay(FetchDelay))>>
    /\ invoked = 1
    /\ InitComponents


\* AddTodoForm.handleInputChange
FormInput ==
    /\ ~isCreating
    /\ \/ \E value \in TypedTitles :
            /\ formData' = [formData EXCEPT !.title = value]
            /\ errors' = [errors EXCEPT !.title = None]
       \/ \E value \in TypedDescriptions :
            /\ formData' = [formData EXCEPT !.description = value]
            /\ errors' = [errors EXCEPT !.description = None]
    /\ UNCHANGED <<storeVars, appTodos, isLoading, appError, isCreating,
                   updatingTodoId, deletingTodoId, editing, loaded, trip>>

\* AddTodoForm.handleSubmit, and App.handleCreateTodo up to its await
Submit ==
    /\ ~isCreating
    /\ LET newErrors == validateForm(formData)
       IN IF newErrors = NoErrors
          THEN /\ invoked < MaxUiOps
               /\ isCreating' = TRUE
               /\ appError' = None
               /\ Suspend(Call("createTodo", None, Some(formData.title),
                               Some(formData.description), None, delay(CreateDelay)))
               /\ formData' = [title |-> <<>>, description |-> <<>>]
               /\ errors' = NoErrors
               /\ UNCHANGED <<appTodos, isLoading, updatingTodoId, deletingTodoId,
                              editing, loaded, trip>>
          ELSE /\ errors' = newErrors
               /\ UNCHANGED <<storeVars, appTodos, isLoading, appError, isCreating,
                              updatingTodoId, deletingTodoId, formData, editing,
                              loaded, trip>>

\* App.handleUpdateTodo up to its await
handleUpdateTodo(id, updates) ==
    /\ invoked < MaxUiOps
    /\ updatingTodoId' = id
    /\ appError' = None
    /\ Suspend(Call("updateTodo", Some(id), updates.title, updates.description,
                    updates.completed, delay(UpdateDelay)))
    /\ UNCHANGED <<appTodos, isLoading, isCreating, deletingTodoId, formData, errors,
                   loaded, trip>>

\* TodoItem.handleToggleComplete
Toggle ==
    \E id \in ClickedIds :
        /\ ItemEnabled(id)
        /\ handleUpdateTodo(id, [title |-> None, description |-> None,
                                 completed |-> Some(~ItemOf(id).completed)])
        /\ UNCHANGED editing

\* TodoItem.handleEdit
Edit ==
    \E id \in EditedIds :
        /\ ItemEnabled(id)
        /\ editing' = editing \cup {[id |-> id, title |-> ItemOf(id).title,
                                     description |-> ItemOf(id).description,
                                     errors |-> NoErrors]}
        /\ UNCHANGED <<storeVars, appTodos, isLoading, appError, isCreating,
                       updatingTodoId, deletingTodoId, formData, errors, loaded, trip>>

\* TodoItem.handleInputChange
EditInput ==
    \E e \in editing :
        /\ EditEnabled(e)
        /\ \/ \E value \in EditedTitles :
                editing' = (editing \ {e}) \cup
                           {[e EXCEPT !.title = value, !.errors.title = None]}
           \/ \E value \in EditedDescriptions :
                editing' = (editing \ {e}) \cup
                           {[e EXCEPT !.description = value, !.errors.description = None]}
        /\ UNCHANGED <<storeVars, appTodos, isLoading, appError, isCreating,
                       updatingTodoId, deletingTodoId, formData, errors, loaded, trip>>

\* TodoItem.handleSaveEdit
SaveEdit ==
    \E e \in editing :
        /\ EditEnabled(e)
        /\ LET newErrors == validateEditForm(e)
           IN IF newErrors = NoErrors
              THEN /\ handleUpdateTodo(e.id, [title |-> Some(trim(e.title)),
                                             description |-> Some(trim(e.description)),
                                             completed |-> None])
                   /\ editing' = editing \ {e}
              ELSE /\ editing' = (editing \ {e}) \cup {[e EXCEPT !.errors = newErrors]}
                   /\ UNCHANGED <<storeVars, appTodos, isLoading, appError, isCreating,
                                  updatingTodoId, deletingTodoId, formData, errors,
                                  loaded, trip>>

\* TodoItem.handleCancelEdit
CancelEdit ==
    \E e \in editing :
        /\ EditEnabled(e)
        /\ editing' = editing \ {e}
        /\ UNCHANGED <<storeVars, appTodos, isLoading, appError, isCreating,
                       updatingTodoId, deletingTodoId, formData, errors, loaded, trip>>

\* the Delete button of TodoItem: App.handleDeleteTodo up to its await
Delete ==
    \E id \in ClickedIds :
        /\ ItemEnabled(id)
        /\ invoked < MaxUiOps
        /\ deletingTodoId' = id
        /\ appError' = None
        /\ Suspend(Call("deleteTodo", Some(id), None, None, None, delay(DeleteDelay)))
        /\ UNCHANGED <<appTodos, isLoading, isCreating, updatingTodoId, formData,
                       errors, editing, loaded, trip>>

\* ErrorMessage onRetry: App.handleRetry, loadTodos up to its await; the
\* list is replaced by the spinner, so its items lose their state
Retry ==
    /\ appError # None
    /\ invoked < MaxUiOps
    /\ isLoading' = TRUE
    /\ appError' = None
    /\ Suspend(Call("fetchTodos", None, None, None, None, delay(FetchDelay)))
    /\ editing' = {}
    /\ UNCHANGED <<appTodos, isCreating, updatingTodoId, deletingTodoId, formData,
                   errors, loaded, trip>>

\* ErrorMessage onDismiss: App.handleClearError
Dismiss ==
    /\ appError # None
    /\ appError' = None
    /\ UNCHANGED <<storeVars, appTodos, isLoading, isCreating, updatingTodoId,
                   deletingTodoId, formData, errors, editing, loaded, trip>>


\* fetchTodos returns, and loadTodos runs from its await to its end
AppResumeFetch ==
    \E k \in 1..Len(pending), rnd \in RandomDraws :
        /\ Due(k, "fetchTodos")
        /\ LET out == fetchTodos(rnd)
           IN /\ Return(k, out, clock, rnd)
              /\ IF out.success
                 THEN appTodos' = out.data /\ UNCHANGED appError
                 ELSE appError' = Some(OrElse(out.error, "Failed to load todos"))
                      /\ UNCHANGED appTodos
        /\ isLoading' = FALSE
        /\ loaded' = TRUE
        /\ UNCHANGED <<isCreating, updatingTodoId, deletingTodoId, formData, errors,
                       editing, trip>>

\* createTodo returns, and handleCreateTodo runs from its await to its end
AppResumeCreate ==
    \E k \in 1..Len(pending), rnd \in RandomDraws, fraction \in FormFractions,
       d1 \in 0..1, d2 \in 0..1 :
        /\ Due(k, "createTodo")
        /\ LET out == createTodo(pending[k], rnd, fraction, clock, clock + d1,
                                 clock + d1 + d2)
           IN /\ Return(k, out, IF out.success THEN clock + d1 + d2 ELSE clock, rnd)
              /\ IF out.success
                 THEN appTodos' = afterCreate(appTodos, out.data[1])
                      /\ UNCHANGED appError
                 ELSE appError' = Some(OrElse(out.error, "Failed to create todo"))
                      /\ UNCHANGED appTodos
        /\ isCreating' = FALSE
        /\ UNCHANGED <<isLoading, updatingTodoId, deletingTodoId, formData, errors,
                       editing, loaded, trip>>

\* updateTodo returns, and handleUpdateTodo runs from its await to its end
AppResumeUpdate ==
    \E k \in 1..Len(pending), rnd \in RandomDraws :
        /\ Due(k, "updateTodo")
        /\ LET out == updateTodo(pending[k], rnd, clock)
           IN /\ Return(k, out, clock, rnd)
              /\ IF out.success
                 THEN appTodos' = afterUpdate(appTodos, pending[k].id[1], out.data[1],
                                              out.heap)
                      /\ UNCHANGED appError
                 ELSE appError' = Some(OrElse(out.error, "Failed to update todo"))
                      /\ UNCHANGED appTodos
        /\ updatingTodoId' = None
        /\ UNCHANGED <<isLoading, isCreating, deletingTodoId, formData, errors,
                       editing, loaded, trip>>

\* deleteTodo returns, and handleDeleteTodo runs from its await to its end;
\* the TodoItem of a record that left the list is unmounted
AppResumeDelete ==
    \E k \in 1..Len(pending), rnd \in RandomDraws :
        /\ Due(k, "deleteTodo")
        /\ LET out == deleteTodo(pending[k].id[1], rnd)
           IN /\ Return(k, out, clock, rnd)
              /\ IF out.success
                 THEN appTodos' = afterDelete(appTodos, pending[k].id[1], out.heap)
                      /\ UNCHANGED appError
                 ELSE appError' = Some(OrElse(out.error, "Failed to delete todo"))
                      /\ UNCHANGED appTodos
              /\ editing' = IF out.success
                            THEN {e \in editing : e.id # pending[k].id[1]}
                            ELSE editing
        /\ deletingTodoId' = None
        /\ UNCHANGED <<isLoading, isCreating, updatingTodoId, formData, errors,
                       loaded, trip>>

NextApp ==
    \/ FormInput
    \/ Submit
    \/ Toggle
    \/ Edit
    \/ EditInput
    \/ SaveEdit
    \/ CancelEdit
    \/ Delete
    \/ Retry
    \/ Dismiss
    \/ AppResumeFetch
    \/ AppResumeCreate
    \/ AppResumeUpdate
    \/ AppResumeDelete
    \/ TimerWait

SpecApp == InitApp /\ [][NextApp]_vars


----------------------------------------------------------------------------
(* Properties *)

\* a step in which a suspended operation resumed and settled
\* a timer that was set fires, and the continuation of its await runs: the
\* event loop leaves no due timer waiting for ever
Fairness ==
    /\ WF_vars(TimerWait)
    /\ WF_vars(ResumeFetch)
    /\ WF_vars(ResumeCreate)
    /\ WF_vars(ResumeUpdate)
    /\ WF_vars(ResumeDelete)

SpecLive == Init /\ [][Next]_vars /\ Fairness


Resumed(op) == Len(pending') < Len(pending) /\ last'.call.op = op

ResumedAny == Len(pending') < Len(pending)

\* shouldFail() of the settled call let it through
PassedDraw(draw) == ~(draw < FailThreshold)

\* the records a list of references stands for
Deref(refs) == [i \in 1..Len(refs) |-> heap[refs[i]]]

\* the positions of the collection whose record has this id
Positions(id) == {i \in 1..Len(todos) : heap[todos[i]].id = id}

\* C1: an operation that resolves with success=false leaves the collection
\* exactly as it was just before the operation resumed.
C1_FailureLeavesCollection ==
    [][(ResumedAny /\ ~last'.success) => Collection' = Collection]_vars

\* an injected failure of an update whose record is in the collection
C1_Witness ==
    /\ last.call.op = "updateTodo"
    /\ ~last.success
    /\ last.error = "Failed to update todo. Please try again."
    /\ Positions(last.call.id[1]) # {}

\* C2, as stated: updateTodo on an id matching no record resolves with
\* success=false and error 'Todo not found' for every outcome of the failure
\* draw, and leaves the collection length unchanged.
C2_AlwaysNotFound ==
    [][(Resumed("updateTodo") /\ Positions(last'.call.id[1]) = {})
        => /\ ~last'.success
           /\ last'.error = "Todo not found"
           /\ Len(todos') = Len(todos)]_vars

\* C2, amended: updateTodo on an id matching no record resolves with
\* success=false and leaves the collection unchanged; its error is
\* 'Todo not found' when the failure draw lets the call through and
\* 'Failed to update todo. Please try again.' when the draw injects a failure.
C2_MissingIdFails ==
    [][(Resumed("updateTodo") /\ Positions(last'.call.id[1]) = {})
        => /\ last'.settled = "fulfilled"
           /\ ~last'.success
           /\ last'.error = IF PassedDraw(last'.draw)
                            THEN "Todo not found"
                            ELSE "Failed to update todo. Please try again."
           /\ Collection' = Collection]_vars

\* an update of an id that no record has, resolved as not found
C2_Witness ==
    /\ last.call.op = "updateTodo"
    /\ last.call.id = Some(MissingId)
    /\ ~last.success
    /\ last.error = "Todo not found"

\* exactly the record at position i is gone, the rest is as before, in order
RemovedAt(i) ==
    /\ Len(Collection') = Len(Collection) - 1
    /\ \A j \in 1..(i - 1) : Collection'[j] = Collection[j]
    /\ \A j \in i..(Len(Collection) - 1) : Collection'[j] = Collection[j + 1]

\* C3, as stated: deleteTodo on an id present in the collection removes
\* exactly the record with that id and returns success=true with data=null;
\* on an id not present it leaves the collection unchanged and resolves with
\* success=false.
C3_DeleteAlwaysRemoves ==
    [][Resumed("deleteTodo")
        => IF Positions(last'.call.id[1]) # {}
           THEN /\ last'.success
                /\ last'.dataKind = "null"
                /\ \E i \in Positions(last'.call.id[1]) : RemovedAt(i)
           ELSE /\ ~last'.success
                /\ Collection' = Collection]_vars

\* C3, amended: deleteTodo on an id present in the collection, when the
\* failure draw lets the call through, removes exactly one record, one with
\* that id, leaving the others and their order unchanged, and returns
\* success=true with data=null; when the draw injects a failure, or the id is
\* not present, the collection is unchanged and the call resolves with
\* success=false.
C3_DeleteRemovesOne ==
    [][Resumed("deleteTodo")
        => IF Positions(last'.call.id[1]) # {} /\ PassedDraw(last'.draw)
           THEN /\ last'.success
                /\ last'.dataKind = "null"
                /\ last'.data = <<>>
                /\ \E i \in Positions(last'.call.id[1]) : RemovedAt(i)
           ELSE /\ ~last'.success
                /\ Collection' = Collection]_vars

\* the middle seeded record was deleted, its neighbours remain
C3_Witness ==
    /\ last.call.op = "deleteTodo"
    /\ last.call.id = Some(<<2>>)
    /\ last.success
    /\ Len(todos) = 2
    /\ Positions(<<1>>) = {1}
    /\ Positions(<<3>>) = {2}

\* C4: a successful updateTodo changes only the supplied fields and updatedAt
\* of the one record: id and createdAt stay, unsupplied fields keep their
\* values, the record keeps its position, the other records are untouched.
C4_UpdateFrame ==
    [][(Resumed("updateTodo") /\ last'.success)
        => LET req == last'.call
               hit == Positions(req.id[1])
           IN /\ hit # {}
              /\ Len(Collection') = Len(Collection)
              /\ SubSeq(heap', 1, Len(heap)) = heap
              /\ \E i \in hit :
                  /\ \A j \in 1..Len(Collection) :
                        j # i => Collection'[j] = Collection[j]
                  /\ last'.data = <<todos'[i]>>
                  /\ Collection'[i].id = Collection[i].id
                  /\ Collection'[i].createdAt = Collection[i].createdAt
                  /\ Collection'[i].title =
                        IF req.title = None THEN Collection[i].title ELSE req.title[1]
                  /\ Collection'[i].description =
                        IF req.description = None THEN Collection[i].description
                        ELSE req.description[1]
                  /\ Collection'[i].completed =
                        IF req.completed = None THEN Collection[i].completed
                        ELSE req.completed[1]]_vars

\* an edit of title and description succeeded on the completed record
C4_Witness ==
    /\ last.call.op = "updateTodo"
    /\ last.success
    /\ last.call.title # None
    /\ last.call.completed = None
    /\ Len(todos) = 3
    /\ Collection[2].id = <<2>>
    /\ Collection[2].title = last.call.title[1]
    /\ Collection[2].completed

\* C5: every successful createTodo yields a record with completed=false,
\* createdAt equal to updatedAt, and title and description equal to the
\* trimmed inputs.
C5_CreatedRecord ==
    [][(Resumed("createTodo") /\ last'.success)
        => LET new == heap'[last'.data[1]]
           IN /\ new.completed = FALSE
              /\ new.createdAt = new.updatedAt
              /\ new.title = trim(last'.call.title[1])
              /\ new.description = trim(last'.call.description[1])]_vars

\* C6: fetchTodos never reports failure: its envelope has success=true and
\* data equal to the whole collection, in order, as it is when the call
\* resumes, and the collection is not modified.
C6_FetchNeverFails ==
    [][Resumed("fetchTodos")
        => /\ last'.settled = "fulfilled"
           /\ last'.success
           /\ last'.dataKind = "array"
           /\ Deref(last'.data) = Collection
           /\ Collection' = Collection]_vars

\* a fetch that resumed after another operation had changed the collection,
\* for a draw that fails every other operation
C6_Witness ==
    /\ last.call.op = "fetchTodos"
    /\ last.success
    /\ last.draw < FailThreshold
    /\ Len(last.data) # 3
    /\ Deref(last.data) = Collection

\* C7: no operation rejects: every settled call is a resolved envelope; one
\* with success=false carries a non-empty error string, one with
\* success=true carries no error.
C7_AlwaysEnvelope ==
    last.settled # "none"
        => /\ last.settled = "fulfilled"
           /\ ~last.success => last.error \notin {Undefined, ""}
           /\ last.success => last.error = Undefined

\* a domain error ('Todo not found') came back as an envelope
C7_Witness ==
    /\ last.settled = "fulfilled"
    /\ last.call.op = "deleteTodo"
    /\ ~last.success
    /\ PassedDraw(last.draw)
    /\ last.error = "Todo not found"

\* C8: a caller that modifies the list or a record it was handed cannot
\* change the store's collection or any field of a record the store holds.
C8_ReturnsCopies ==
    [][(CallerMutateRecord \/ CallerMutateList) => Collection' = Collection]_vars

\* C9: every record of the collection has updatedAt >= createdAt.
C9_UpdatedNotBeforeCreated ==
    \A i \in 1..Len(Collection) : Collection[i].updatedAt >= Collection[i].createdAt

\* C10: no two records of the collection have the same id.
C10_UniqueIds ==
    \A i, j \in 1..Len(Collection) : i # j => Collection[i].id # Collection[j].id

\* C11, as stated: a successful updateTodo leaves the record's updatedAt
\* strictly later than it was before the call.
C11_StrictlyAdvances ==
    [][(Resumed("updateTodo") /\ last'.success)
        => LET i == findIndex(last'.call.id[1]) + 1
           IN Collection'[i].updatedAt > Collection[i].updatedAt]_vars

\* C11, amended: a successful updateTodo sets the record's updatedAt to the
\* clock reading at the moment the call resumes; that is never earlier than
\* the previous updatedAt (the clock not running backwards) and is equal to
\* it when the previous stamp was taken in the same millisecond.
C11_UpdatedAtIsNow ==
    [][(Resumed("updateTodo") /\ last'.success)
        => LET i == findIndex(last'.call.id[1]) + 1
           IN /\ Collection'[i].updatedAt = clock
              /\ Collection'[i].updatedAt >= Collection[i].updatedAt
              /\ Collection[i].updatedAt < clock
                    => Collection'[i].updatedAt > Collection[i].updatedAt]_vars

\* a record updated twice, the second time in a later millisecond
C11_Witness ==
    /\ last.call.op = "updateTodo"
    /\ last.success
    /\ \E a \in 4..Len(heap) :
        /\ heap[a].id = last.call.id[1]
        /\ heap[a].updatedAt >= Clock0
        /\ heap[a].updatedAt < heap[last.data[1]].updatedAt

\* C12: a successful createTodo puts the new record last, lengthens the
\* collection by one and leaves the earlier records as they were, in order;
\* update and delete never reorder the remaining records.
C12_InsertionOrder ==
    [][(ResumedAny /\ last'.success)
        => /\ last'.call.op = "createTodo"
              => /\ Len(Collection') = Len(Collection) + 1
                 /\ SubSeq(Collection', 1, Len(Collection)) = Collection
                 /\ todos'[Len(todos')] = last'.data[1]
           /\ last'.call.op = "updateTodo"
              => /\ Len(Collection') = Len(Collection)
                 /\ \A j \in 1..Len(Collection) : Collection'[j].id = Collection[j].id
                 /\ \E i \in 1..Len(Collection) :
                       \A j \in 1..Len(Collection) :
                           j # i => Collection'[j] = Collection[j]
           /\ last'.call.op = "deleteTodo"
              => \E i \in 1..Len(Collection) : RemovedAt(i)]_vars

\* a created record stands last, behind the three seeded ones
C12_Witness ==
    /\ last.call.op = "createTodo"
    /\ last.success
    /\ Len(todos) = 4
    /\ todos[4] = last.data[1]
    /\ SubSeq(Collection, 1, 3) = SeedTodos

\* the record carries every field the request supplied
HasFields(r, req) ==
    /\ req.title # None => r.title = req.title[1]
    /\ req.description # None => r.description = req.description[1]
    /\ req.completed # None => r.completed = req.completed[1]

\* the two requests supply no field in common
DisjointFields(a, b) ==
    /\ a.title = None \/ b.title = None
    /\ a.description = None \/ b.description = None
    /\ a.completed = None \/ b.completed = None

InjectedMessage(op) ==
    IF op = "updateTodo" THEN "Failed to update todo. Please try again."
    ELSE "Failed to delete todo. Please try again."

\* two successful updates of one record settled one after the other
UpdatedTwice ==
    /\ Resumed("updateTodo")
    /\ last'.success
    /\ last.call.op = "updateTodo"
    /\ last.success
    /\ last.call.id = last'.call.id

\* an update or delete settles right after a successful delete of its id
AfterDelete ==
    /\ Resumed("updateTodo") \/ Resumed("deleteTodo")
    /\ last.call.op = "deleteTodo"
    /\ last.success
    /\ last.call.id = last'.call.id

\* C13, as stated: of two successful updates of one record that supply
\* disjoint fields the record holds both calls' values, whichever resumes
\* first; an update or delete that resumes after a delete of the same id
\* resolves with 'Todo not found' without touching the collection.
C13_NoLostUpdateNotFound ==
    [][/\ (UpdatedTwice /\ DisjointFields(last.call, last'.call))
           => LET r == Collection'[findIndex(last'.call.id[1]) + 1]
              IN HasFields(r, last.call) /\ HasFields(r, last'.call)
       /\ AfterDelete
           => /\ ~last'.success
              /\ last'.error = "Todo not found"
              /\ Collection' = Collection]_vars

\* C13, amended: of two successful updates of one record that supply
\* disjoint fields the record holds both calls' values, whichever resumes
\* first; an update or delete that resumes after a delete of the same id,
\* no record with that id being left, resolves with success=false without
\* touching the collection, with error 'Todo not found' when the failure
\* draw lets the call through and the injected-failure message otherwise.
C13_NoLostUpdate ==
    [][/\ (UpdatedTwice /\ DisjointFields(last.call, last'.call))
           => LET r == Collection'[findIndex(last'.call.id[1]) + 1]
              IN HasFields(r, last.call) /\ HasFields(r, last'.call)
       /\ (AfterDelete /\ Positions(last'.call.id[1]) = {})
           => /\ ~last'.success
              /\ last'.error = IF PassedDraw(last'.draw) THEN "Todo not found"
                               ELSE InjectedMessage(last'.call.op)
              /\ Collection' = Collection]_vars

\* the edit and the toggle of the completed record were both in flight
\* before either timer could fire, and the record holds both
C13_Witness ==
    /\ last.call.op = "updateTodo"
    /\ last.success
    /\ last.call.id = Some(<<2>>)
    /\ last.call.due <= Clock0 + MaxTicks + UpdateDelay
    /\ pending = <<>>
    /\ invoked = 2
    /\ Collection[2].completed = FALSE
    /\ \E t \in TitleInputs : Collection[2].title = t

\* C14: a second successful updateTodo with the same payload leaves id,
\* title, description, completed and createdAt as the first left them.
C14_UpdateIdempotent ==
    [][(/\ UpdatedTwice
        /\ last.call.title = last'.call.title
        /\ last.call.description = last'.call.description
        /\ last.call.completed = last'.call.completed)
        => LET i == findIndex(last'.call.id[1]) + 1
           IN /\ Collection'[i].id = Collection[i].id
              /\ Collection'[i].title = Collection[i].title
              /\ Collection'[i].description = Collection[i].description
              /\ Collection'[i].completed = Collection[i].completed
              /\ Collection'[i].createdAt = Collection[i].createdAt]_vars

\* the same toggle applied twice: two versions that differ in updatedAt only
C14_Witness ==
    /\ last.call.op = "updateTodo"
    /\ last.success
    /\ last.call.completed # None
    /\ \E a \in 4..Len(heap) :
        /\ a # last.data[1]
        /\ heap[a].updatedAt # heap[last.data[1]].updatedAt
        /\ [heap[a] EXCEPT !.updatedAt = 0] = [heap[last.data[1]] EXCEPT !.updatedAt = 0]

\* a call that passed the failure draw and found its target has acted on it
Applied ==
    LET c == last'.call
    IN /\ c.op = "fetchTodos" => last'.success
       /\ (c.op = "createTodo" /\ PassedDraw(last'.draw))
             => last'.success /\ Len(todos') = Len(todos) + 1
       /\ (c.op = "updateTodo" /\ PassedDraw(last'.draw) /\ Positions(c.id[1]) # {})
             => /\ last'.success
                /\ HasFields(Collection'[findIndex(c.id[1]) + 1], c)
       /\ (c.op = "deleteTodo" /\ PassedDraw(last'.draw) /\ Positions(c.id[1]) # {})
             => last'.success /\ RemovedAt(findIndex(c.id[1]) + 1)

\* C16: every invoked operation eventually resolves with an envelope; a call
\* leaves the set of in-flight calls only by resuming (nothing cancels it),
\* and when it resumes, passes the failure draw and finds its target, it
\* applies its mutation.
C16_EventuallyResolves ==
    /\ \A n \in 1..MaxOps : (invoked >= n) ~> (invoked - Len(pending) >= n)
    /\ [][(pending' # pending)
            => \/ /\ Len(pending') = Len(pending) + 1
                  /\ SubSeq(pending', 1, Len(pending)) = pending
               \/ /\ Len(pending') = Len(pending) - 1
                  /\ \E k \in 1..Len(pending) : last'.call = pending[k]
                  /\ last'.settled = "fulfilled"
                  /\ Applied]_vars

\* two calls were invoked, both have resolved, the second one a delete that
\* removed its record
C16_Witness ==
    /\ invoked = MaxOps
    /\ pending = <<>>
    /\ last.settled = "fulfilled"
    /\ last.call.op = "deleteTodo"
    /\ last.success
    /\ Len(todos) = 2

\* C15: after createTodo, successful updates of the id it returned and a
\* successful deleteTodo of that id, the collection is what it was before
\* the create.
C15_RoundTrip ==
    trip.phase = "done" => Collection = trip.before

\* the step suspended a new store call
Called(op) ==
    /\ Len(pending') = Len(pending) + 1
    /\ pending'[Len(pending')].op = op

\* validation put up a message that was not there
Rejected(old, new) ==
    \/ new.title # None /\ new.title # old.title
    \/ new.description # None /\ new.description # old.description

\* C17: the add form calls createTodo, and an item's Save calls updateTodo
\* with title and description, only when the trimmed title has at least 3
\* characters and the trimmed description at least 5; a rejected submit or
\* save invokes no store operation and keeps the entered data; no record
\* of the collection has an empty title or description.
C17_CallerValidates ==
    /\ [](\A i \in 1..Len(todos) :
            Collection[i].title # <<>> /\ Collection[i].description # <<>>)
    /\ [][/\ Called("createTodo")
              => LET c == pending'[Len(pending')]
                 IN /\ c.title[1] = formData.title
                    /\ c.description[1] = formData.description
                    /\ Len(trim(c.title[1])) >= 3
                    /\ Len(trim(c.description[1])) >= 5
          /\ (Called("updateTodo") /\ pending'[Len(pending')].title # None)
              => LET c == pending'[Len(pending')]
                 IN /\ c.description # None
                    /\ Len(trim(c.title[1])) >= 3
                    /\ Len(trim(c.description[1])) >= 5
          /\ Rejected(errors, errors')
              => pending' = pending /\ formData' = formData
          /\ \A e \in editing, f \in editing' :
                (f.id = e.id /\ Rejected(e.errors, f.errors))
                    => /\ pending' = pending
                       /\ f.title = e.title
                       /\ f.description = e.description]_vars

\* a record went in through the form, and a later submit with a title of
\* one letter between blanks was rejected and is still in the form
C17_Witness ==
    /\ errors.title # None
    /\ formData.title = <<" ", "a", " ">>
    /\ formData.description # <<>>
    /\ pending = <<>>
    /\ \E i \in 1..Len(todos) : todos[i] >= 4 /\ Collection[i].id \in CreatedIds

\* the same records, each as many times, in any order
SameRecords(a, b) ==
    /\ Len(a) = Len(b)
    /\ \A v \in Range(a) \cup Range(b) :
          Cardinality({i \in 1..Len(a) : a[i] = v})
              = Cardinality({j \in 1..Len(b) : b[j] = v})

\* C18: once the initial load has completed, App's todos state holds
\* exactly the records of the store's collection, order aside.
C18_AppMirrorsStore ==
    loaded => SameRecords(Deref(appTodos), Collection)

\* after the load a record was created and record '1' deleted: App shows
\* the new record first, the store holds it last
C18_Witness ==
    /\ loaded
    /\ pending = <<>>
    /\ invoked = MaxUiOps
    /\ Len(todos) = 3
    /\ todos[3] >= 4
    /\ appTodos[1] = todos[3]
    /\ Positions(<<1>>) = {}

\* C19: while an update or a delete issued through the UI for a todo is in
\* flight, updatingTodoId or deletingTodoId equals its id.
C19_BusyWhileInFlight ==
    \A k \in 1..Len(pending) :
        /\ pending[k].op = "updateTodo" => updatingTodoId = pending[k].id[1]
        /\ pending[k].op = "deleteTodo" => deletingTodoId = pending[k].id[1]

====
